---- MODULE Spec2Model ----
(***************************************************************************)
(* MaxDuino tick-driven tape encoders: the Sharp MZ (MZF) stage machine    *)
(* and the Mattel Aquarius (CAQ) bit encoder of src/MaxDuino/mzf.cpp.      *)
(*                                                                         *)
(* Every file-scope static and every global the two encoders touch is a    *)
(* field of the variable prog.  The C functions are operators from such a  *)
(* record (the operand s) to the record after the call; the field ret      *)
(* carries a function's return value.  An action applies one whole handler *)
(* (mzf_init, mzf_process, caq_init, caq_process) to the current state.    *)
(***************************************************************************)
EXTENDS Integers, Sequences, FiniteSets, TLC

VARIABLES
  prog,   \* the statics of the two encoders, the globals they share with the
          \* scheduler and the settings, and the open file, one field each
  obs     \* observers (history; the encoders never read them), one field each

vars == <<prog, obs>>

(***************************************************************************)
(* Fields of prog:                                                         *)
(*   MZF statics (mzf.cpp:43-71): mzf_stage, mzf_hdr, mzf_file_len,        *)
(*     mzf_hdr_cksum, mzf_file_cksum, mzf_pulses_left, mzf_file_left,      *)
(*     mzf_tm_left, mzf_src, mzf_hdr_idx, mzf_cur_byte, mzf_have_byte,     *)
(*     mzf_leader_done, mzf_bit_mask, mzf_chk_byte_idx, mzf_half           *)
(*   CAQ statics (mzf.cpp:396-410): caq_stage, caq_saved_baudrate,         *)
(*     caq_baudrate_overridden, caq_cur_byte, caq_have_byte, caq_bit_idx,  *)
(*     caq_halves_left, caq_half_period                                    *)
(*   globals: currentPeriod, currentID, currentTask, bytesRead, outByte,   *)
(*     count_r, BAUDRATE                                                   *)
(*   the open file (entry): file_data, the bytes from offset file_off on   *)
(*     that have been revealed so far, and file_eof, whether the end of    *)
(*     the file is known to lie right after them                           *)
(*   ret, the value the last call returned, and asked, whether the byte    *)
(*     source was asked for a byte: both FALSE between two handlers        *)
(* Fields of obs:                                                          *)
(*   init_calls    calls of mzf_init so far                                *)
(*   init_failed   the seek or the header read of mzf_init failed          *)
(*   ticked        mzf_process has been called since mzf_init              *)
(*   stage_trace   the distinct values of mzf_stage since the successful   *)
(*                 mzf_init                                                *)
(*   pend          the up half-period whose down half is still due, or 0   *)
(*   paired        every half-period so far came in an (up, down) pair of  *)
(*                 one kind                                                *)
(*   runs          complete pulses of the gap and tapemark stages,         *)
(*                 run-length coded                                        *)
(*   loaded_n      per byte-producing stage, the bytes loaded in it        *)
(*   sent          per checksum and file stage, the bytes loaded in it     *)
(*   last_byte     the byte loaded last                                    *)
(*   cur_pulses    kinds of the complete pulses since that byte was loaded *)
(*   pulses_n      per byte-producing stage, the complete pulses of it     *)
(*   zeros_n       per byte-producing stage, the ticks of it that gave 0   *)
(*   asks_n        calls of ReadByte by mzf_process so far                 *)
(*   asks_ok       those of them that returned a byte                      *)
(*   ask_stages    the stages in which mzf_process called ReadByte         *)
(*   left_at       the stage an earlier MZF session was in when mzf_init   *)
(*                 was called again, "" when there was none                *)
(*   ref           in a session begun by a second mzf_init: the program    *)
(*                 state of a session on the same tape, with the same      *)
(*                 answers of the byte source, begun from the statics      *)
(*   caq_inits     calls of caq_init so far                                *)
(*   caq_abandoned those of them that cut a playback short of DONE         *)
(*   menu_baud     the baud rate configured before any CAQ playback        *)
(*   caq_byte      the byte the CAQ playback read last, -1 when none       *)
(*   caq_halves    the values of currentPeriod since that byte was read    *)
(*   caq_frames    the playback's earlier bytes, each with its             *)
(*                 half-periods                                            *)
(***************************************************************************)

----------------------------------------------------------------------------
(* Bounds of the model *)

\* largest small file length declared in a header (lengths 0..MaxLen, and 259)
MaxLen == 3
\* most bytes the byte source holds after the header
MaxBody == 4

----------------------------------------------------------------------------
(* Program constants *)

MZF_LONG_UP_US == 464
MZF_LONG_DOWN_US == 494
MZF_SHORT_UP_US == 240
MZF_SHORT_DOWN_US == 264
MZF_LGAP_PULSES == 22000
MZF_SGAP_PULSES == 11000
MZF_LTM_LONGS == 40
MZF_LTM_SHORTS == 40
MZF_STM_LONGS == 20
MZF_STM_SHORTS == 20
HDR_SIZE == 128

\* enum class MZF_STAGE, in declaration order
MZF_STAGE == <<"LGAP1", "LTM_LONG", "LTM_SHORT", "LTM_ENDLONG", "HDR1", "CHKH1",
               "HDR2", "CHKH2", "SGAP", "STM_LONG", "STM_SHORT", "STM_ENDLONG",
               "FILE1", "CHKF1", "FILE2", "CHKF2", "DONE">>

\* enum class BYTE_SRC
BYTE_SRC == {"HDR", "FILE", "CHK"}

----------------------------------------------------------------------------
(* Fixed-width arithmetic *)

RECURSIVE BitAnd(_, _)
\* a & b on non-negative integers
BitAnd(a, b) ==
  IF a = 0 \/ b = 0 THEN 0
  ELSE (a % 2) * (b % 2) + 2 * BitAnd(a \div 2, b \div 2)

RECURSIVE BitOr(_, _)
\* a | b on non-negative integers
BitOr(a, b) ==
  IF a = 0 THEN b
  ELSE IF b = 0 THEN a
  ELSE (IF a % 2 = 1 \/ b % 2 = 1 THEN 1 ELSE 0) + 2 * BitOr(a \div 2, b \div 2)

\* a >> n
Shr(a, n) == a \div (2 ^ n)

U8(x) == x % 256
U16(x) == x % 65536

----------------------------------------------------------------------------
(* The state record the C functions are applied to *)

St == prog

\* the program state takes the values of the record r a handler returned
Install(r) == prog' = [r EXCEPT !.ret = FALSE, !.asked = FALSE]

----------------------------------------------------------------------------
(* The byte source *)

\* bytes a read may reveal at a position of the file not read before
BodyBytes == {0, 255, 129}

\* what the environment may answer to a read of one more byte
ReadChoices == [ok : {FALSE}, byte : {0}] \cup [ok : {TRUE}, byte : BodyBytes]

\* ReadByte(): the byte at offset bytesRead goes to outByte and bytesRead
\* advances; false (and nothing changes) at the end of the file.  A position
\* read for the first time is revealed as the choice rd; the file holds at
\* most MaxBody bytes from offset file_off on.
ReadByte(s, rd) ==
  LET pos == s.bytesRead - s.file_off
  IN  IF pos < Len(s.file_data)
      THEN [s EXCEPT !.outByte = s.file_data[pos + 1],
                     !.bytesRead = @ + 1, !.ret = TRUE, !.asked = TRUE]
      ELSE IF s.file_eof \/ ~rd.ok \/ Len(s.file_data) >= MaxBody
      THEN [s EXCEPT !.file_eof = TRUE, !.ret = FALSE, !.asked = TRUE]
      ELSE [s EXCEPT !.file_data = Append(@, rd.byte), !.outByte = rd.byte,
                     !.bytesRead = @ + 1, !.ret = TRUE, !.asked = TRUE]

\* the scheduler opens the file to play: nothing of it is read yet
open_file(s) ==
  [s EXCEPT !.bytesRead = 0, !.file_off = 0, !.file_data = <<>>, !.file_eof = FALSE]

----------------------------------------------------------------------------
(* MZF encoder *)

\* a bit count that drops the high nibble's pair sums
popcount8_low(v) ==
  LET v1 == U8(v - BitAnd(Shr(v, 1), 85))
      v2 == U8(BitAnd(v1, 51) + BitAnd(Shr(v1, 2), 51))
  IN  U8(BitAnd(v2, 15))

\* popcount8 (the byte v is truncated to 8 bits after each assignment)
popcount8(v) ==
  LET v1 == U8(v - BitAnd(Shr(v, 1), 85))
      v2 == U8(BitAnd(v1, 51) + BitAnd(Shr(v1, 2), 51))
  IN  U8(BitAnd(BitAnd(v2 + Shr(v2, 4), 15) * 1, 31))

mzf_cksum_add(acc, v) == U16(acc + popcount8(v))

\* a pulse primitive that never gets to the down half
mzf_emit_pulse_uponly(s, isLong) ==
  [s EXCEPT !.currentPeriod = IF isLong THEN MZF_LONG_UP_US ELSE MZF_SHORT_UP_US,
            !.mzf_half = 0, !.ret = FALSE]

\* a pulse primitive that hands out the length of the whole pulse on the down
\* half
mzf_emit_pulse_whole(s, isLong) ==
  IF s.mzf_half = 0
  THEN [s EXCEPT !.currentPeriod = IF isLong THEN MZF_LONG_UP_US ELSE MZF_SHORT_UP_US,
                 !.mzf_half = 1, !.ret = FALSE]
  ELSE [s EXCEPT !.currentPeriod = IF isLong THEN MZF_LONG_UP_US + MZF_LONG_DOWN_US
                                   ELSE MZF_SHORT_UP_US + MZF_SHORT_DOWN_US,
                 !.mzf_half = 0, !.ret = TRUE]

\* a pulse primitive that reports the pulse complete on either half
mzf_emit_pulse_eager(s, isLong) ==
  IF s.mzf_half = 0
  THEN [s EXCEPT !.currentPeriod = IF isLong THEN MZF_LONG_UP_US ELSE MZF_SHORT_UP_US,
                 !.mzf_half = 1, !.ret = TRUE]
  ELSE [s EXCEPT !.currentPeriod = IF isLong THEN MZF_LONG_DOWN_US ELSE MZF_SHORT_DOWN_US,
                 !.mzf_half = 0, !.ret = TRUE]

mzf_emit_pulse(s, isLong) ==
  IF s.mzf_half = 0
  THEN [s EXCEPT !.currentPeriod = IF isLong THEN MZF_LONG_UP_US ELSE MZF_SHORT_UP_US,
                 !.mzf_half = 1, !.ret = FALSE]
  ELSE [s EXCEPT !.currentPeriod = IF isLong THEN MZF_LONG_DOWN_US ELSE MZF_SHORT_DOWN_US,
                 !.mzf_half = 0, !.ret = TRUE]

mzf_next_stage(s, stage) ==
  [s EXCEPT !.mzf_stage = stage, !.mzf_half = 0, !.mzf_have_byte = FALSE,
            !.mzf_leader_done = FALSE, !.mzf_bit_mask = 128, !.mzf_chk_byte_idx = 0]

RECURSIVE HdrCksumLoop(_, _, _, _)
\* the loop of mzf_init over i = lo..hi-1, entered with accumulator acc; the
\* iterations are taken in order, the range being split in two (and the first
\* half evaluated before the second is entered) to keep the evaluation shallow
HdrCksumLoop(hdr, lo, hi, acc) ==
  IF lo >= hi THEN acc
  ELSE IF hi = lo + 1 THEN mzf_cksum_add(acc, hdr[lo + 1])
  ELSE LET mid == (lo + hi) \div 2
           left == HdrCksumLoop(hdr, lo, mid, acc)
       IN  IF left >= 0 THEN HdrCksumLoop(hdr, mid, hi, left) ELSE acc

\* what entry.read(mzf_hdr, 128) may answer: -1 for an I/O error, else the
\* number of bytes the file holds from offset 0, up to 128
ReadResults == {-1, 0, 19, 127, HDR_SIZE}

\* a 128-byte tape header: byte fill(off) at every offset but 18 and 19, which
\* hold the file length len, low byte first
Header(fill, len) ==
  [i \in 1..HDR_SIZE |->
     IF i = 19 THEN len % 256
     ELSE IF i = 20 THEN len \div 256
     ELSE IF fill = "ones" THEN 255 ELSE (37 * (i - 1) + 11) % 256]

\* the headers a tape may carry: the ramp with every declared length, and the
\* header of all ones but for a short length, or as it is (length 65535)
DeclaredLens == (0..MaxLen) \cup {259}
Headers == {Header("ramp", l) : l \in DeclaredLens}
             \cup {Header("ones", l) : l \in {MaxLen, 65535}}

\* entry.read(mzf_hdr, 128) after entry.seekSet(0): n bytes of the file, the
\* first n of h, go to the front of mzf_hdr and n is returned in ret, or -1 and
\* nothing is read.  A file of fewer than 128 bytes ends there; of a longer one
\* the bytes from offset 128 on are still to be revealed.
entry_read(s, n, h) ==
  IF n = -1 THEN [s EXCEPT !.ret = -1]
  ELSE [s EXCEPT !.mzf_hdr = [i \in 1..HDR_SIZE |-> IF i <= n THEN h[i] ELSE @[i]],
                 !.file_off = n,
                 !.file_data = <<>>,
                 !.file_eof = n < HDR_SIZE,
                 !.ret = n]

\* an mzf_init that takes any read but an I/O error for a whole header
mzf_init_shortok(s, seekOk, n, h) ==
  LET s1 == [s EXCEPT !.mzf_stage = "DONE", !.mzf_half = 0]
  IN  IF ~seekOk THEN [s1 EXCEPT !.currentID = "IDEOF"]
      ELSE LET s2 == entry_read(s1, n, h)
           IN  IF s2.ret < 0 THEN [s2 EXCEPT !.currentID = "IDEOF"]
               ELSE LET s3 == [s2 EXCEPT
                                 !.mzf_file_len =
                                    BitOr(s2.mzf_hdr[19], U16(s2.mzf_hdr[20] * 256)),
                                 !.mzf_hdr_cksum = HdrCksumLoop(s2.mzf_hdr, 0, HDR_SIZE, 0),
                                 !.bytesRead = 128,
                                 !.currentTask = "PROCESSID",
                                 !.currentID = "MZF",
                                 !.mzf_pulses_left = MZF_LGAP_PULSES]
                    IN  mzf_next_stage(s3, "LGAP1")

\* an mzf_init that adds the header's checksum to the one it finds
mzf_init_accum(s, seekOk, n, h) ==
  LET s1 == [s EXCEPT !.mzf_stage = "DONE", !.mzf_half = 0]
  IN  IF ~seekOk THEN [s1 EXCEPT !.currentID = "IDEOF"]
      ELSE LET s2 == entry_read(s1, n, h)
           IN  IF s2.ret # HDR_SIZE THEN [s2 EXCEPT !.currentID = "IDEOF"]
               ELSE LET s3 == [s2 EXCEPT
                                 !.mzf_file_len =
                                    BitOr(s2.mzf_hdr[19], U16(s2.mzf_hdr[20] * 256)),
                                 !.mzf_hdr_cksum =
                                    HdrCksumLoop(s2.mzf_hdr, 0, HDR_SIZE, s2.mzf_hdr_cksum),
                                 !.bytesRead = 128,
                                 !.currentTask = "PROCESSID",
                                 !.currentID = "MZF",
                                 !.mzf_pulses_left = MZF_LGAP_PULSES]
                    IN  mzf_next_stage(s3, "LGAP1")

mzf_init(s, seekOk, n, h) ==
  LET s1 == [s EXCEPT !.mzf_stage = "DONE", !.mzf_half = 0]
  IN  IF ~seekOk THEN [s1 EXCEPT !.currentID = "IDEOF"]
      ELSE LET s2 == entry_read(s1, n, h)
           IN  IF s2.ret # HDR_SIZE THEN [s2 EXCEPT !.currentID = "IDEOF"]
               ELSE LET s3 == [s2 EXCEPT
                                 !.mzf_file_len =
                                    BitOr(s2.mzf_hdr[19], U16(s2.mzf_hdr[20] * 256)),
                                 !.mzf_hdr_cksum = HdrCksumLoop(s2.mzf_hdr, 0, HDR_SIZE, 0),
                                 !.bytesRead = 128,
                                 !.currentTask = "PROCESSID",
                                 !.currentID = "MZF",
                                 !.mzf_pulses_left = MZF_LGAP_PULSES]
                    IN  mzf_next_stage(s3, "LGAP1")

\* a byte loader that never counts down the bytes left of the body
mzf_load_next_byte_nocount(s, rd) ==
  IF s.mzf_src = "HDR"
  THEN IF s.mzf_hdr_idx >= HDR_SIZE THEN [s EXCEPT !.ret = FALSE]
       ELSE [s EXCEPT !.mzf_cur_byte = s.mzf_hdr[s.mzf_hdr_idx + 1],
                      !.mzf_hdr_idx = U16(@ + 1),
                      !.mzf_have_byte = TRUE, !.ret = TRUE]
  ELSE IF s.mzf_src = "FILE"
  THEN IF s.mzf_file_left = 0 THEN [s EXCEPT !.ret = FALSE]
       ELSE LET r == ReadByte(s, rd)
            IN  IF ~r.ret THEN [r EXCEPT !.ret = FALSE]
                ELSE [r EXCEPT !.mzf_cur_byte = r.outByte,
                               !.mzf_have_byte = TRUE,
                               !.mzf_file_cksum = mzf_cksum_add(@, r.outByte),
                               !.ret = TRUE]
  ELSE IF s.mzf_chk_byte_idx >= 2 THEN [s EXCEPT !.ret = FALSE]
       ELSE LET v == IF s.mzf_stage = "CHKH1" \/ s.mzf_stage = "CHKH2"
                     THEN s.mzf_hdr_cksum ELSE s.mzf_file_cksum
                b == IF s.mzf_chk_byte_idx = 0 THEN U8(Shr(v, 8)) ELSE U8(BitAnd(v, 255))
            IN  [s EXCEPT !.mzf_cur_byte = b, !.mzf_have_byte = TRUE,
                          !.mzf_chk_byte_idx = U8(@ + 1), !.ret = TRUE]

\* a byte loader that adds outByte to the body checksum before it looks at
\* what ReadByte returned
mzf_load_next_byte_early(s, rd) ==
  IF s.mzf_src = "HDR"
  THEN IF s.mzf_hdr_idx >= HDR_SIZE THEN [s EXCEPT !.ret = FALSE]
       ELSE [s EXCEPT !.mzf_cur_byte = s.mzf_hdr[s.mzf_hdr_idx + 1],
                      !.mzf_hdr_idx = U16(@ + 1),
                      !.mzf_have_byte = TRUE, !.ret = TRUE]
  ELSE IF s.mzf_src = "FILE"
  THEN IF s.mzf_file_left = 0 THEN [s EXCEPT !.ret = FALSE]
       ELSE LET r == ReadByte(s, rd)
                a == [r EXCEPT !.mzf_file_cksum = mzf_cksum_add(@, r.outByte)]
            IN  IF ~r.ret THEN [a EXCEPT !.ret = FALSE]
                ELSE [a EXCEPT !.mzf_cur_byte = r.outByte,
                               !.mzf_have_byte = TRUE,
                               !.mzf_file_left = U16(@ + 65535),
                               !.ret = TRUE]
  ELSE IF s.mzf_chk_byte_idx >= 2 THEN [s EXCEPT !.ret = FALSE]
       ELSE LET v == IF s.mzf_stage = "CHKH1" \/ s.mzf_stage = "CHKH2"
                     THEN s.mzf_hdr_cksum ELSE s.mzf_file_cksum
                b == IF s.mzf_chk_byte_idx = 0 THEN U8(Shr(v, 8)) ELSE U8(BitAnd(v, 255))
            IN  [s EXCEPT !.mzf_cur_byte = b, !.mzf_have_byte = TRUE,
                          !.mzf_chk_byte_idx = U8(@ + 1), !.ret = TRUE]

\* a byte loader that takes the header checksum in CHKH1 only
mzf_load_next_byte_chkh1(s, rd) ==
  IF s.mzf_src = "HDR"
  THEN IF s.mzf_hdr_idx >= HDR_SIZE THEN [s EXCEPT !.ret = FALSE]
       ELSE [s EXCEPT !.mzf_cur_byte = s.mzf_hdr[s.mzf_hdr_idx + 1],
                      !.mzf_hdr_idx = U16(@ + 1),
                      !.mzf_have_byte = TRUE, !.ret = TRUE]
  ELSE IF s.mzf_src = "FILE"
  THEN IF s.mzf_file_left = 0 THEN [s EXCEPT !.ret = FALSE]
       ELSE LET r == ReadByte(s, rd)
            IN  IF ~r.ret THEN [r EXCEPT !.ret = FALSE]
                ELSE [r EXCEPT !.mzf_cur_byte = r.outByte,
                               !.mzf_have_byte = TRUE,
                               !.mzf_file_left = U16(@ + 65535),
                               !.mzf_file_cksum = mzf_cksum_add(@, r.outByte),
                               !.ret = TRUE]
  ELSE IF s.mzf_chk_byte_idx >= 2 THEN [s EXCEPT !.ret = FALSE]
       ELSE LET v == IF s.mzf_stage = "CHKH1"
                     THEN s.mzf_hdr_cksum ELSE s.mzf_file_cksum
                b == IF s.mzf_chk_byte_idx = 0 THEN U8(Shr(v, 8)) ELSE U8(BitAnd(v, 255))
            IN  [s EXCEPT !.mzf_cur_byte = b, !.mzf_have_byte = TRUE,
                          !.mzf_chk_byte_idx = U8(@ + 1), !.ret = TRUE]

\* a byte loader that reads the next body byte before it looks at the count
\* of bytes left
mzf_load_next_byte_readfirst(s, rd) ==
  IF s.mzf_src = "HDR"
  THEN IF s.mzf_hdr_idx >= HDR_SIZE THEN [s EXCEPT !.ret = FALSE]
       ELSE [s EXCEPT !.mzf_cur_byte = s.mzf_hdr[s.mzf_hdr_idx + 1],
                      !.mzf_hdr_idx = U16(@ + 1),
                      !.mzf_have_byte = TRUE, !.ret = TRUE]
  ELSE IF s.mzf_src = "FILE"
  THEN LET r == ReadByte(s, rd)
       IN  IF ~r.ret \/ s.mzf_file_left = 0 THEN [r EXCEPT !.ret = FALSE]
           ELSE [r EXCEPT !.mzf_cur_byte = r.outByte,
                          !.mzf_have_byte = TRUE,
                          !.mzf_file_left = U16(@ + 65535),
                          !.mzf_file_cksum = mzf_cksum_add(@, r.outByte),
                          !.ret = TRUE]
  ELSE IF s.mzf_chk_byte_idx >= 2 THEN [s EXCEPT !.ret = FALSE]
       ELSE LET v == IF s.mzf_stage = "CHKH1" \/ s.mzf_stage = "CHKH2"
                     THEN s.mzf_hdr_cksum ELSE s.mzf_file_cksum
                b == IF s.mzf_chk_byte_idx = 0 THEN U8(Shr(v, 8)) ELSE U8(BitAnd(v, 255))
            IN  [s EXCEPT !.mzf_cur_byte = b, !.mzf_have_byte = TRUE,
                          !.mzf_chk_byte_idx = U8(@ + 1), !.ret = TRUE]

mzf_load_next_byte(s, rd) ==
  IF s.mzf_src = "HDR"
  THEN IF s.mzf_hdr_idx >= HDR_SIZE THEN [s EXCEPT !.ret = FALSE]
       ELSE [s EXCEPT !.mzf_cur_byte = s.mzf_hdr[s.mzf_hdr_idx + 1],
                      !.mzf_hdr_idx = U16(@ + 1),
                      !.mzf_have_byte = TRUE, !.ret = TRUE]
  ELSE IF s.mzf_src = "FILE"
  THEN IF s.mzf_file_left = 0 THEN [s EXCEPT !.ret = FALSE]
       ELSE LET r == ReadByte(s, rd)
            IN  IF ~r.ret THEN [r EXCEPT !.ret = FALSE]
                ELSE [r EXCEPT !.mzf_cur_byte = r.outByte,
                               !.mzf_have_byte = TRUE,
                               !.mzf_file_left = U16(@ + 65535),
                               !.mzf_file_cksum = mzf_cksum_add(@, r.outByte),
                               !.ret = TRUE]
  ELSE IF s.mzf_chk_byte_idx >= 2 THEN [s EXCEPT !.ret = FALSE]
       ELSE LET v == IF s.mzf_stage = "CHKH1" \/ s.mzf_stage = "CHKH2"
                     THEN s.mzf_hdr_cksum ELSE s.mzf_file_cksum
                b == IF s.mzf_chk_byte_idx = 0 THEN U8(Shr(v, 8)) ELSE U8(BitAnd(v, 255))
            IN  [s EXCEPT !.mzf_cur_byte = b, !.mzf_have_byte = TRUE,
                          !.mzf_chk_byte_idx = U8(@ + 1), !.ret = TRUE]

mzf_reset_byte_writer_for_src(s, src) ==
  [s EXCEPT !.mzf_src = src, !.mzf_have_byte = FALSE, !.mzf_leader_done = FALSE,
            !.mzf_bit_mask = 128, !.mzf_chk_byte_idx = 0]

\* a byte writer that sends the data bits least significant bit first
mzf_process_loaded_lsb(s) ==
  IF ~s.mzf_leader_done
  THEN LET e == mzf_emit_pulse(s, TRUE)
       IN  IF e.ret THEN [e EXCEPT !.mzf_leader_done = TRUE] ELSE e
  ELSE LET bitIsOne == BitAnd(s.mzf_cur_byte, 128 \div s.mzf_bit_mask) # 0
           e == mzf_emit_pulse(s, bitIsOne)
       IN  IF e.ret
           THEN LET m == [e EXCEPT !.mzf_bit_mask = Shr(@, 1)]
                IN  IF m.mzf_bit_mask = 0 THEN [m EXCEPT !.mzf_have_byte = FALSE] ELSE m
           ELSE e

\* the part of mzf_process_bytes after a byte is known to be loaded
mzf_process_loaded(s) ==
  IF ~s.mzf_leader_done
  THEN LET e == mzf_emit_pulse(s, TRUE)
       IN  IF e.ret THEN [e EXCEPT !.mzf_leader_done = TRUE] ELSE e
  ELSE LET bitIsOne == BitAnd(s.mzf_cur_byte, s.mzf_bit_mask) # 0
           e == mzf_emit_pulse(s, bitIsOne)
       IN  IF e.ret
           THEN LET m == [e EXCEPT !.mzf_bit_mask = Shr(@, 1)]
                IN  IF m.mzf_bit_mask = 0 THEN [m EXCEPT !.mzf_have_byte = FALSE] ELSE m
           ELSE e

mzf_process_bytes(s, totalBytesForHDR, rd) ==
  IF ~s.mzf_have_byte
  THEN LET l == mzf_load_next_byte(s, rd)
       IN  IF ~l.ret THEN [l EXCEPT !.currentPeriod = 0]
           ELSE mzf_process_loaded([l EXCEPT !.mzf_leader_done = FALSE,
                                             !.mzf_bit_mask = 128])
  ELSE mzf_process_loaded(s)

\* a gap that tests its counter before decrementing it
mzf_gap_postdec(s, tm_next, next) ==
  LET e == mzf_emit_pulse(s, FALSE)
  IN  IF e.ret
      THEN LET d == [e EXCEPT !.mzf_pulses_left = @ - 1]
           IN  IF e.mzf_pulses_left = 0
               THEN mzf_next_stage([d EXCEPT !.mzf_tm_left = tm_next], next)
               ELSE d
      ELSE e

\* a gap that hands over to the short run of the tapemark, skipping the long one
mzf_gap_skip(s, tm_next, next) ==
  LET e == mzf_emit_pulse(s, FALSE)
  IN  IF e.ret
      THEN LET d == [e EXCEPT !.mzf_pulses_left = @ - 1]
           IN  IF d.mzf_pulses_left = 0
               THEN mzf_next_stage([d EXCEPT !.mzf_tm_left = tm_next],
                                   IF next = "LTM_LONG" THEN "LTM_SHORT" ELSE "STM_SHORT")
               ELSE d
      ELSE e

\* a gap stage: short pulses; after the last one of the gap, tm_next long
\* pulses of the tapemark that follows are due in stage next.  The gap counter
\* is a uint32_t; it is set to the length of the gap when the gap is entered
\* and the stage is left when it reaches 0, so it never wraps.
mzf_gap(s, tm_next, next) ==
  LET e == mzf_emit_pulse(s, FALSE)
  IN  IF e.ret
      THEN LET d == [e EXCEPT !.mzf_pulses_left = @ - 1]
           IN  IF d.mzf_pulses_left = 0
               THEN mzf_next_stage([d EXCEPT !.mzf_tm_left = tm_next], next)
               ELSE d
      ELSE e

\* the first run of a tapemark: long pulses, then tm_next short ones are due
mzf_tm_long(s, tm_next, next) ==
  LET e == mzf_emit_pulse(s, TRUE)
  IN  IF e.ret
      THEN LET d == [e EXCEPT !.mzf_tm_left = U8(@ + 255)]
           IN  IF d.mzf_tm_left = 0
               THEN mzf_next_stage([d EXCEPT !.mzf_tm_left = tm_next], next)
               ELSE d
      ELSE e

\* a second run of a tapemark that signals its end with a period of 0
mzf_tm_short_zero(s, next) ==
  LET e == mzf_emit_pulse(s, FALSE)
  IN  IF e.ret
      THEN LET d == [e EXCEPT !.mzf_tm_left = U8(@ + 255)]
           IN  IF d.mzf_tm_left = 0
               THEN mzf_next_stage([d EXCEPT !.currentPeriod = 0], next)
               ELSE d
      ELSE e

\* the second run of a tapemark: short pulses
mzf_tm_short(s, next) ==
  LET e == mzf_emit_pulse(s, FALSE)
  IN  IF e.ret
      THEN LET d == [e EXCEPT !.mzf_tm_left = U8(@ + 255)]
           IN  IF d.mzf_tm_left = 0 THEN mzf_next_stage(d, next) ELSE d
      ELSE e

mzf_process(s, rd) ==
  CASE s.mzf_stage = "LGAP1" -> mzf_gap(s, MZF_LTM_LONGS, "LTM_LONG")
    [] s.mzf_stage = "LTM_LONG" -> mzf_tm_long(s, MZF_LTM_SHORTS, "LTM_SHORT")
    [] s.mzf_stage = "LTM_SHORT" -> mzf_tm_short(s, "LTM_ENDLONG")
    [] s.mzf_stage = "LTM_ENDLONG" ->
         LET e == mzf_emit_pulse(s, TRUE)
         IN  IF e.ret
             THEN mzf_next_stage(
                    mzf_reset_byte_writer_for_src([e EXCEPT !.mzf_hdr_idx = 0], "HDR"),
                    "HDR1")
             ELSE e
    [] s.mzf_stage = "HDR1" ->
         LET b == mzf_process_bytes(s, 128, rd)
         IN  IF b.currentPeriod = 0
             THEN mzf_next_stage(mzf_reset_byte_writer_for_src(b, "CHK"), "CHKH1")
             ELSE b
    [] s.mzf_stage = "CHKH1" ->
         LET b == mzf_process_bytes(s, 2, rd)
         IN  IF b.currentPeriod = 0
             THEN mzf_next_stage(
                    mzf_reset_byte_writer_for_src([b EXCEPT !.mzf_hdr_idx = 0], "HDR"),
                    "HDR2")
             ELSE b
    [] s.mzf_stage = "HDR2" ->
         LET b == mzf_process_bytes(s, 128, rd)
         IN  IF b.currentPeriod = 0
             THEN mzf_next_stage(mzf_reset_byte_writer_for_src(b, "CHK"), "CHKH2")
             ELSE b
    [] s.mzf_stage = "CHKH2" ->
         LET b == mzf_process_bytes(s, 2, rd)
         IN  IF b.currentPeriod = 0
             THEN mzf_next_stage([b EXCEPT !.mzf_pulses_left = MZF_SGAP_PULSES], "SGAP")
             ELSE b
    [] s.mzf_stage = "SGAP" -> mzf_gap(s, MZF_STM_LONGS, "STM_LONG")
    [] s.mzf_stage = "STM_LONG" -> mzf_tm_long(s, MZF_STM_SHORTS, "STM_SHORT")
    [] s.mzf_stage = "STM_SHORT" -> mzf_tm_short(s, "STM_ENDLONG")
    [] s.mzf_stage = "STM_ENDLONG" ->
         LET e == mzf_emit_pulse(s, TRUE)
         IN  IF e.ret
             THEN mzf_next_stage(
                    mzf_reset_byte_writer_for_src(
                      [e EXCEPT !.bytesRead = 128, !.mzf_file_left = e.mzf_file_len,
                                !.mzf_file_cksum = 0], "FILE"),
                    "FILE1")
             ELSE e
    [] s.mzf_stage = "FILE1" ->
         LET b == mzf_process_bytes(s, 0, rd)
         IN  IF b.currentPeriod = 0
             THEN mzf_next_stage(mzf_reset_byte_writer_for_src(b, "CHK"), "CHKF1")
             ELSE b
    [] s.mzf_stage = "CHKF1" ->
         LET b == mzf_process_bytes(s, 2, rd)
         IN  IF b.currentPeriod = 0 THEN mzf_next_stage(b, "DONE") ELSE b
    [] s.mzf_stage = "FILE2" ->
         LET b == mzf_process_bytes(s, 0, rd)
         IN  IF b.currentPeriod = 0
             THEN mzf_next_stage(mzf_reset_byte_writer_for_src(b, "CHK"), "CHKF2")
             ELSE b
    [] s.mzf_stage = "CHKF2" ->
         LET b == mzf_process_bytes(s, 2, rd)
         IN  IF b.currentPeriod = 0 THEN mzf_next_stage(b, "DONE") ELSE b
    [] OTHER ->
         [s EXCEPT !.currentID = "IDEOF", !.currentTask = "PROCESSID",
                   !.count_r = 255, !.currentPeriod = 0]

----------------------------------------------------------------------------
(* Observers of an MZF session *)

ByteStages == {"HDR1", "CHKH1", "HDR2", "CHKH2", "FILE1", "CHKF1", "FILE2", "CHKF2"}
HdrStages == {"HDR1", "HDR2"}
CountedStages == {"LGAP1", "LTM_LONG", "LTM_SHORT", "LTM_ENDLONG",
                  "SGAP", "STM_LONG", "STM_SHORT", "STM_ENDLONG"}

UpPeriods == {MZF_LONG_UP_US, MZF_SHORT_UP_US}
DownPeriods == {MZF_LONG_DOWN_US, MZF_SHORT_DOWN_US}

\* the up half-period that must precede the down half-period p
UpOf(p) == IF p = MZF_LONG_DOWN_US THEN MZF_LONG_UP_US ELSE MZF_SHORT_UP_US

\* "L" for the down half of a long pulse, "S" for that of a short one
KindOf(p) == IF p = MZF_LONG_DOWN_US THEN "L" ELSE "S"

\* one more complete pulse of kind k in stage st, run-length coded
AddRun(rs, st, k) ==
  IF rs # <<>> /\ rs[Len(rs)].stage = st /\ rs[Len(rs)].kind = k
  THEN [rs EXCEPT ![Len(rs)].n = @ + 1]
  ELSE Append(rs, [stage |-> st, kind |-> k, n |-> 1])

\* the observers after a tick that took the encoder from s to r
Observe(s, r) ==
  LET p == r.currentPeriod
      st == s.mzf_stage
      loaded == st \in ByteStages /\ ~s.mzf_have_byte /\ p # 0
      complete == p \in DownPeriods /\ obs.pend = UpOf(p)
      moved == r.mzf_stage # st
  IN  [obs EXCEPT
         !.ticked = TRUE,
         !.pend = IF p \in UpPeriods THEN p ELSE 0,
         !.paired = (@ /\ IF p \in DownPeriods THEN obs.pend = UpOf(p) ELSE obs.pend = 0),
         !.runs = IF complete /\ st \in CountedStages THEN AddRun(@, st, KindOf(p)) ELSE @,
         !.loaded_n = IF loaded THEN [@ EXCEPT ![st] = @ + 1] ELSE @,
         !.sent = IF loaded /\ st \in DOMAIN @
                  THEN [@ EXCEPT ![st] = Append(@, r.mzf_cur_byte)] ELSE @,
         !.last_byte = IF loaded THEN r.mzf_cur_byte ELSE @,
         !.cur_pulses = IF moved \/ loaded THEN <<>>
                        ELSE IF complete /\ st \in ByteStages THEN Append(@, KindOf(p))
                        ELSE @,
         !.pulses_n = IF complete /\ st \in ByteStages THEN [@ EXCEPT ![st] = @ + 1] ELSE @,
         !.zeros_n = IF p = 0 /\ st \in ByteStages THEN [@ EXCEPT ![st] = @ + 1] ELSE @,
         !.asks_n = IF r.asked THEN @ + 1 ELSE @,
         !.asks_ok = IF r.asked /\ r.bytesRead = s.bytesRead + 1 THEN @ + 1 ELSE @,
         !.ask_stages = IF r.asked THEN @ \cup {st} ELSE @,
         !.stage_trace = IF moved THEN Append(@, r.mzf_stage) ELSE @]

----------------------------------------------------------------------------
(* The MZF specification: one mzf_init, then the ticks *)

\* values an earlier playback may have left in currentPeriod
StalePeriods == {0, 1000}

\* the static initialisers, with the settings' baud rate baud and stale in
\* currentPeriod
StaticsOf(baud, stale) ==
  [mzf_stage |-> "DONE",
   mzf_hdr |-> [i \in 1..HDR_SIZE |-> 0],
   mzf_file_len |-> 0,
   mzf_hdr_cksum |-> 0,
   mzf_file_cksum |-> 0,
   mzf_pulses_left |-> 0,
   mzf_file_left |-> 0,
   mzf_tm_left |-> 0,
   mzf_src |-> "HDR",
   mzf_hdr_idx |-> 0,
   mzf_cur_byte |-> 0,
   mzf_have_byte |-> FALSE,
   mzf_leader_done |-> FALSE,
   mzf_bit_mask |-> 128,
   mzf_chk_byte_idx |-> 0,
   mzf_half |-> 0,
   caq_stage |-> "DONE",
   caq_saved_baudrate |-> 0,
   caq_baudrate_overridden |-> FALSE,
   caq_cur_byte |-> 0,
   caq_have_byte |-> FALSE,
   caq_bit_idx |-> 7,
   caq_halves_left |-> 0,
   caq_half_period |-> 0,
   currentPeriod |-> stale,
   currentID |-> "NONE",
   currentTask |-> "NONE",
   bytesRead |-> 0,
   outByte |-> 0,
   count_r |-> 0,
   BAUDRATE |-> baud,
   file_off |-> 0,
   file_data |-> <<>>,
   file_eof |-> FALSE,
   ret |-> FALSE,
   asked |-> FALSE]

\* the observers before anything has happened
FreshObs(baud) ==
  [init_calls |-> 0,
   init_failed |-> FALSE,
   ticked |-> FALSE,
   stage_trace |-> <<>>,
   pend |-> 0,
   paired |-> TRUE,
   runs |-> <<>>,
   loaded_n |-> [st \in ByteStages |-> 0],
   sent |-> [st \in ByteStages \ HdrStages |-> <<>>],
   last_byte |-> 0,
   cur_pulses |-> <<>>,
   pulses_n |-> [st \in ByteStages |-> 0],
   zeros_n |-> [st \in ByteStages |-> 0],
   asks_n |-> 0,
   asks_ok |-> 0,
   ask_stages |-> {},
   left_at |-> "",
   ref |-> <<>>,
   caq_inits |-> 0,
   caq_abandoned |-> 0,
   menu_baud |-> baud,
   caq_byte |-> -1,
   caq_halves |-> <<>>,
   caq_frames |-> <<>>]

Statics(baud, stale) ==
  /\ prog = StaticsOf(baud, stale)
  /\ obs = FreshObs(baud)

\* the baud rates the settings offer
BaudRates == {600, 1200, 3600}

Init == \E stale \in StalePeriods : Statics(1200, stale)

\* mzf_init(), called once after the file is opened and before the first tick
\* (mzf.h); the file system answers the seek and the read
MzfInitFrom(tapes) ==
  /\ obs.init_calls = 0
  /\ \E seekOk \in BOOLEAN, n \in ReadResults, h \in tapes :
       LET r == mzf_init(St, seekOk, n, h)
       IN  /\ Install(r)
           /\ obs' = [obs EXCEPT
                        !.init_calls = @ + 1,
                        !.init_failed = (~seekOk \/ n # HDR_SIZE),
                        !.stage_trace = IF r.mzf_stage # "DONE" THEN <<r.mzf_stage>>
                                        ELSE <<>>]

MzfInit == MzfInitFrom(Headers)

\* the answers the byte source may give in this tick: the encoder asks it for
\* a byte only while mzf_src is FILE (mzf_load_next_byte)
ReadChoicesNow ==
  IF prog.mzf_src = "FILE" THEN ReadChoices ELSE {[ok |-> FALSE, byte |-> 0]}

\* one tick: mzf_process()
MzfProcess ==
  /\ obs.init_calls > 0
  /\ \E rd \in ReadChoicesNow :
       LET r == mzf_process(St, rd)
       IN  /\ Install(r)
           /\ obs' = Observe(St, r)

Next == MzfInit \/ MzfProcess

Spec == Init /\ [][Next]_vars

\* the tapes of the fair specification: no body declared, a short body (which
\* the file may hold in full or only in part), and a body longer than any file
LiveHeaders == {Header("ramp", l) : l \in {0, MaxLen, 259}}

MzfInitLive == MzfInitFrom(LiveHeaders)

NextLive == MzfInitLive \/ MzfProcess

\* the scheduler calls mzf_process() again and again while the MZF encoder
\* is the active one
SpecLive == Init /\ [][NextLive]_vars /\ WF_vars(MzfProcess)

----------------------------------------------------------------------------
(* Two MZF sessions: the scheduler may call mzf_init again, for another     *)
(* tape, while the first session is under way or after it is DONE; the      *)
(* session that follows runs side by side with a session on the same tape   *)
(* that began from the static initialisers.                                 *)

\* how far into a gap or a tapemark run the first session may be when it is
\* abandoned, in complete pulses
MaxAbandonPulses == 2
\* how far into a byte stage, in bytes loaded
MaxAbandonBytes == 1

\* the tape of the first session and the tape of the second
FirstTapes == {Header("ones", MaxLen)}
SecondTapes == {Header("ramp", MaxLen)}

MzfInitFirst == MzfInitFrom(FirstTapes)

\* the body of the first tape is bytes of 255, as many as the byte source
\* gives before it fails
FirstReadChoices ==
  IF prog.mzf_src = "FILE"
  THEN {[ok |-> FALSE, byte |-> 0], [ok |-> TRUE, byte |-> 255]}
  ELSE {[ok |-> FALSE, byte |-> 0]}

\* a tick of the first session
MzfProcessFirst ==
  /\ obs.init_calls = 1
  /\ \E rd \in FirstReadChoices :
       LET r == mzf_process(St, rd)
       IN  /\ Install(r)
           /\ obs' = Observe(St, r)

\* the complete pulses the current tapemark run has emitted
RunPulses ==
  IF obs.runs # <<>> /\ obs.runs[Len(obs.runs)].stage = prog.mzf_stage
  THEN obs.runs[Len(obs.runs)].n ELSE 0

\* the points at which the first session is left: after DONE (any number of
\* ticks after), in the first pulses of a gap or of a tapemark run, or in the
\* first bytes of a byte stage; there, at either half of any pulse (the
\* leading long pulse and the eight bits of a byte)
AbandonPoint ==
  \/ prog.mzf_stage = "DONE"
  \/ prog.mzf_stage \in CountedStages /\ RunPulses <= MaxAbandonPulses
  \/ prog.mzf_stage \in ByteStages /\ obs.loaded_n[prog.mzf_stage] <= MaxAbandonBytes

\* the state r a handler returned, as it is between two handlers
Settled(r) == [r EXCEPT !.ret = FALSE, !.asked = FALSE]

\* the scheduler opens the second tape and calls mzf_init(), whose seek and
\* header read succeed; the reference session is mzf_init() for the same tape
\* on the statics
MzfReinit ==
  /\ obs.init_calls = 1
  /\ AbandonPoint
  /\ \E h \in SecondTapes :
       LET r == mzf_init(open_file(St), TRUE, HDR_SIZE, h)
           f == mzf_init(open_file(StaticsOf(prog.BAUDRATE, 0)), TRUE, HDR_SIZE, h)
       IN  /\ Install(r)
           /\ obs' = [FreshObs(obs.menu_baud) EXCEPT
                        !.init_calls = 2,
                        !.stage_trace = <<r.mzf_stage>>,
                        !.left_at = prog.mzf_stage,
                        !.ref = Settled(f)]

\* a tick of the second session, and the same tick of the reference session
MzfProcessSecond ==
  /\ obs.init_calls = 2
  /\ \E rd \in ReadChoicesNow :
       LET r == mzf_process(St, rd)
           f == mzf_process(obs.ref, rd)
       IN  /\ Install(r)
           /\ obs' = [Observe(St, r) EXCEPT !.ref = Settled(f)]

NextReinit == MzfInitFirst \/ MzfProcessFirst \/ MzfReinit \/ MzfProcessSecond

SpecReinit == Init /\ [][NextReinit]_vars

----------------------------------------------------------------------------
(* CAQ encoder *)

CAQ_MARK_HALF_US == 272
CAQ_SPACE_HALF_US == 544

\* enum CAQ_STAGE, in declaration order
CAQ_STAGE == <<"START_BIT", "DATA_BITS", "STOP_BIT1", "STOP_BIT2", "DONE">>

\* a bit that takes the space timing for 1 and the mark timing for 0
caq_begin_bit_swapped(s, bit_val) ==
  [s EXCEPT !.caq_half_period = IF bit_val THEN CAQ_SPACE_HALF_US ELSE CAQ_MARK_HALF_US,
            !.caq_halves_left = 4]

caq_begin_bit(s, bit_val) ==
  [s EXCEPT !.caq_half_period = IF bit_val THEN CAQ_MARK_HALF_US ELSE CAQ_SPACE_HALF_US,
            !.caq_halves_left = 4]

\* caq_get_next_byte(caq_cur_byte): the only call there is
caq_get_next_byte(s, rd) ==
  LET r == ReadByte(s, rd)
  IN  IF ~r.ret THEN [r EXCEPT !.ret = FALSE]
      ELSE [r EXCEPT !.caq_cur_byte = r.outByte, !.ret = TRUE]

\* a caq_init that saves BAUDRATE whether or not the override is active
caq_init_resave(s) ==
  LET s1 == [s EXCEPT !.caq_stage = "START_BIT", !.caq_have_byte = FALSE,
                      !.caq_bit_idx = 7, !.caq_halves_left = 0,
                      !.caq_half_period = CAQ_SPACE_HALF_US]
      s2 == [s1 EXCEPT !.caq_saved_baudrate = s1.BAUDRATE, !.BAUDRATE = 600,
                       !.caq_baudrate_overridden = TRUE]
  IN  [s2 EXCEPT !.currentID = "CAQ", !.currentTask = "PROCESSID", !.count_r = 255]

caq_init(s) ==
  LET s1 == [s EXCEPT !.caq_stage = "START_BIT", !.caq_have_byte = FALSE,
                      !.caq_bit_idx = 7, !.caq_halves_left = 0,
                      !.caq_half_period = CAQ_SPACE_HALF_US]
      s2 == IF ~s1.caq_baudrate_overridden
            THEN [s1 EXCEPT !.caq_saved_baudrate = s1.BAUDRATE, !.BAUDRATE = 600,
                            !.caq_baudrate_overridden = TRUE]
            ELSE s1
  IN  [s2 EXCEPT !.currentID = "CAQ", !.currentTask = "PROCESSID", !.count_r = 255]

\* the tail every emitting case of the switch ends with
caq_emit_first(s) ==
  [s EXCEPT !.currentPeriod = s.caq_half_period, !.caq_halves_left = U8(@ + 255)]

\* a switch that sends one stop bit only
caq_switch_onestop(s) ==
  CASE s.caq_stage = "START_BIT" ->
         caq_emit_first([caq_begin_bit(s, FALSE) EXCEPT !.caq_stage = "DATA_BITS"])
    [] s.caq_stage = "DATA_BITS" ->
         LET bit_val == BitAnd(Shr(s.caq_cur_byte, s.caq_bit_idx), 1) # 0
             b == [caq_begin_bit(s, bit_val) EXCEPT !.caq_bit_idx = @ - 1]
         IN  caq_emit_first(IF b.caq_bit_idx < 0 THEN [b EXCEPT !.caq_stage = "STOP_BIT1"]
                            ELSE b)
    [] s.caq_stage = "STOP_BIT1" \/ s.caq_stage = "STOP_BIT2" ->
         caq_emit_first([caq_begin_bit(s, TRUE) EXCEPT !.caq_have_byte = FALSE,
                                                       !.caq_stage = "START_BIT"])
    [] OTHER ->
         LET b == IF s.caq_baudrate_overridden
                  THEN [s EXCEPT !.BAUDRATE = s.caq_saved_baudrate,
                                 !.caq_baudrate_overridden = FALSE]
                  ELSE s
         IN  [b EXCEPT !.currentID = "IDEOF", !.currentTask = "PROCESSID",
                       !.count_r = 255, !.currentPeriod = 0]

\* a switch that hands over to the end-of-file handler with the override
\* still in place
caq_switch_norestore(s) ==
  CASE s.caq_stage = "START_BIT" ->
         caq_emit_first([caq_begin_bit(s, FALSE) EXCEPT !.caq_stage = "DATA_BITS"])
    [] s.caq_stage = "DATA_BITS" ->
         LET bit_val == BitAnd(Shr(s.caq_cur_byte, s.caq_bit_idx), 1) # 0
             b == [caq_begin_bit(s, bit_val) EXCEPT !.caq_bit_idx = @ - 1]
         IN  caq_emit_first(IF b.caq_bit_idx < 0 THEN [b EXCEPT !.caq_stage = "STOP_BIT1"]
                            ELSE b)
    [] s.caq_stage = "STOP_BIT1" ->
         caq_emit_first([caq_begin_bit(s, TRUE) EXCEPT !.caq_stage = "STOP_BIT2"])
    [] s.caq_stage = "STOP_BIT2" ->
         caq_emit_first([caq_begin_bit(s, TRUE) EXCEPT !.caq_have_byte = FALSE,
                                                       !.caq_stage = "START_BIT"])
    [] OTHER ->
         [s EXCEPT !.currentID = "IDEOF", !.currentTask = "PROCESSID",
                   !.count_r = 255, !.currentPeriod = 0]

\* the switch of caq_process
caq_switch(s) ==
  CASE s.caq_stage = "START_BIT" ->
         caq_emit_first([caq_begin_bit(s, FALSE) EXCEPT !.caq_stage = "DATA_BITS"])
    [] s.caq_stage = "DATA_BITS" ->
         LET bit_val == BitAnd(Shr(s.caq_cur_byte, s.caq_bit_idx), 1) # 0
             b == [caq_begin_bit(s, bit_val) EXCEPT !.caq_bit_idx = @ - 1]
         IN  caq_emit_first(IF b.caq_bit_idx < 0 THEN [b EXCEPT !.caq_stage = "STOP_BIT1"]
                            ELSE b)
    [] s.caq_stage = "STOP_BIT1" ->
         caq_emit_first([caq_begin_bit(s, TRUE) EXCEPT !.caq_stage = "STOP_BIT2"])
    [] s.caq_stage = "STOP_BIT2" ->
         caq_emit_first([caq_begin_bit(s, TRUE) EXCEPT !.caq_have_byte = FALSE,
                                                       !.caq_stage = "START_BIT"])
    [] OTHER ->
         LET b == IF s.caq_baudrate_overridden
                  THEN [s EXCEPT !.BAUDRATE = s.caq_saved_baudrate,
                                 !.caq_baudrate_overridden = FALSE]
                  ELSE s
         IN  [b EXCEPT !.currentID = "IDEOF", !.currentTask = "PROCESSID",
                       !.count_r = 255, !.currentPeriod = 0]

\* a caq_process that fetches the next byte while one half-period of the
\* last stop bit is still due
caq_process_prefetch(s, rd) ==
  LET s0 == [s EXCEPT !.currentPeriod = 0]
  IN  IF s0.caq_halves_left # 0
      THEN LET e == [s0 EXCEPT !.currentPeriod = s0.caq_half_period,
                               !.caq_halves_left = U8(@ + 255)]
           IN  IF e.caq_halves_left = 1 /\ ~e.caq_have_byte
               THEN LET g == caq_get_next_byte(e, rd)
                    IN  IF ~g.ret THEN g
                        ELSE [g EXCEPT !.caq_have_byte = TRUE,
                                       !.caq_stage = "START_BIT",
                                       !.caq_bit_idx = 7]
               ELSE e
      ELSE IF ~s0.caq_have_byte
      THEN LET g == caq_get_next_byte(s0, rd)
           IN  IF ~g.ret THEN caq_switch([g EXCEPT !.caq_stage = "DONE"])
               ELSE caq_switch([g EXCEPT !.caq_have_byte = TRUE,
                                         !.caq_stage = "START_BIT",
                                         !.caq_bit_idx = 7])
      ELSE caq_switch(s0)

caq_process(s, rd) ==
  LET s0 == [s EXCEPT !.currentPeriod = 0]
  IN  IF s0.caq_halves_left # 0
      THEN [s0 EXCEPT !.currentPeriod = s0.caq_half_period,
                      !.caq_halves_left = U8(@ + 255)]
      ELSE IF ~s0.caq_have_byte
      THEN LET g == caq_get_next_byte(s0, rd)
           IN  IF ~g.ret THEN caq_switch([g EXCEPT !.caq_stage = "DONE"])
               ELSE caq_switch([g EXCEPT !.caq_have_byte = TRUE,
                                         !.caq_stage = "START_BIT",
                                         !.caq_bit_idx = 7])
      ELSE caq_switch(s0)

----------------------------------------------------------------------------
(* The CAQ specification: playbacks, each of a freshly opened file; a new  *)
(* playback may start at any tick of the one before.                       *)

\* most caq_init calls
MaxCaqInits == 3

\* most bytes of a file played as CAQ
MaxCaqBytes == 3

InitCAQ == \E b \in BaudRates, stale \in StalePeriods : Statics(b, stale)

\* the scheduler opens a file and calls caq_init()
CaqInit ==
  /\ obs.caq_inits < MaxCaqInits
  /\ Install(caq_init(open_file(St)))
  /\ obs' = [obs EXCEPT
               !.caq_inits = @ + 1,
               !.caq_abandoned = IF obs.caq_inits > 0 /\ prog.caq_stage # "DONE"
                                 THEN @ + 1 ELSE @,
               !.caq_byte = -1,
               !.caq_halves = <<>>,
               !.caq_frames = <<>>]

\* the observers after a CAQ tick that took the encoder from s to r
ObserveCaq(s, r) ==
  LET got == r.asked /\ r.bytesRead = s.bytesRead + 1
  IN  [obs EXCEPT
         !.caq_byte = IF r.asked THEN (IF got THEN r.outByte ELSE -1) ELSE @,
         !.caq_halves = IF r.asked THEN (IF got THEN <<r.currentPeriod>> ELSE <<>>)
                        ELSE IF obs.caq_byte # -1 THEN Append(@, r.currentPeriod)
                        ELSE @,
         !.caq_frames = IF r.asked /\ obs.caq_byte # -1
                        THEN Append(@, [byte |-> obs.caq_byte, halves |-> obs.caq_halves])
                        ELSE @]

\* the answers the byte source may give in this tick
CaqReadChoices ==
  IF Len(prog.file_data) < MaxCaqBytes THEN ReadChoices ELSE {[ok |-> FALSE, byte |-> 0]}

\* one tick: caq_process()
CaqProcess ==
  /\ obs.caq_inits > 0
  /\ \E rd \in CaqReadChoices :
       LET r == caq_process(St, rd)
       IN  /\ Install(r)
           /\ obs' = ObserveCaq(St, r)

NextCAQ == CaqInit \/ CaqProcess

SpecCAQ == InitCAQ /\ [][NextCAQ]_vars

----------------------------------------------------------------------------
(* Either encoder: the scheduler plays the file as MZF or as CAQ; only one  *)
(* encoder is active in a run.                                              *)

NextEither ==
  \/ obs.caq_inits = 0 /\ Next
  \/ obs.init_calls = 0 /\ NextCAQ

SpecEither == Init /\ [][NextEither]_vars

----------------------------------------------------------------------------
(* The CAQ specification with the settings menu: between two playbacks the  *)
(* user may configure another baud rate.                                    *)

\* the scheduler leaves the playback (finished or not), the settings menu
\* stores the baud rate b the user picked in BAUDRATE, and the scheduler opens
\* a file and calls caq_init()
CaqInitAfterMenu ==
  /\ obs.caq_inits > 0
  /\ obs.caq_inits < MaxCaqInits
  /\ \E b \in BaudRates :
       Install(caq_init(open_file([St EXCEPT !.BAUDRATE = b])))
  /\ obs' = [obs EXCEPT
               !.caq_inits = @ + 1,
               !.caq_abandoned = IF prog.caq_stage # "DONE" THEN @ + 1 ELSE @,
               !.caq_byte = -1,
               !.caq_halves = <<>>,
               !.caq_frames = <<>>]

NextMenu == CaqInit \/ CaqProcess \/ CaqInitAfterMenu

SpecMenu == InitCAQ /\ [][NextMenu]_vars

----------------------------------------------------------------------------
(* Properties of an MZF session (specification Spec) *)

\* the stage st has been entered in this session
Entered(st) == \E i \in DOMAIN obs.stage_trace : obs.stage_trace[i] = st

\* this step is a call of mzf_process
IsMzfProcess == obs.init_calls > 0 /\ obs'.init_calls = obs.init_calls

\* the sequence p is a prefix of the sequence q
IsPrefix(p, q) == Len(p) <= Len(q) /\ \A i \in 1..Len(p) : p[i] = q[i]

\* the stage order of a session whose mzf_init succeeded
StageOrder ==
  <<"LGAP1", "LTM_LONG", "LTM_SHORT", "LTM_ENDLONG", "HDR1", "CHKH1", "HDR2", "CHKH2",
    "SGAP", "STM_LONG", "STM_SHORT", "STM_ENDLONG", "FILE1", "CHKF1", "DONE">>

\* C1: after a successful mzf_init the stages entered are, in order, LGAP1,
\* LTM_LONG, LTM_SHORT, LTM_ENDLONG, HDR1, CHKH1, HDR2, CHKH2, SGAP, STM_LONG,
\* STM_SHORT, STM_ENDLONG, FILE1, CHKF1, DONE: the stages entered so far are
\* always an initial part of that list, the current stage is the last of them,
\* the session begins in LGAP1, and FILE2 and CHKF2 are never entered.
C1_StageOrder ==
  /\ IsPrefix(obs.stage_trace, StageOrder)
  /\ obs.stage_trace # <<>> => prog.mzf_stage = obs.stage_trace[Len(obs.stage_trace)]
  /\ (obs.init_calls > 0 /\ ~obs.init_failed) => obs.stage_trace # <<>>
  /\ prog.mzf_stage \notin {"FILE2", "CHKF2"}

\* a session that went through every stage and is DONE
C1_Witness == prog.mzf_stage = "DONE" /\ obs.stage_trace = StageOrder

\* the complete pulses of the gap and tapemark stages, in order
ExpectedRuns ==
  <<[stage |-> "LGAP1", kind |-> "S", n |-> 22000],
    [stage |-> "LTM_LONG", kind |-> "L", n |-> 40],
    [stage |-> "LTM_SHORT", kind |-> "S", n |-> 40],
    [stage |-> "LTM_ENDLONG", kind |-> "L", n |-> 1],
    [stage |-> "SGAP", kind |-> "S", n |-> 11000],
    [stage |-> "STM_LONG", kind |-> "L", n |-> 20],
    [stage |-> "STM_SHORT", kind |-> "S", n |-> 20],
    [stage |-> "STM_ENDLONG", kind |-> "L", n |-> 1]>>

\* C2: the gap and tapemark stages emit exactly these complete pulses (an up
\* half-period followed by the down half-period of the same kind): LGAP1 22000
\* short; LTM_LONG 40 long, LTM_SHORT 40 short, LTM_ENDLONG 1 long; SGAP 11000
\* short; STM_LONG 20 long, STM_SHORT 20 short, STM_ENDLONG 1 long.  The runs
\* emitted so far are those of the list in order, each of one kind, none
\* longer than listed, and complete once its stage has been left.
C2_PulseCounts ==
  LET rs == obs.runs
  IN  /\ obs.paired
      /\ Len(rs) <= Len(ExpectedRuns)
      /\ \A i \in 1..Len(rs) :
           /\ rs[i].stage = ExpectedRuns[i].stage
           /\ rs[i].kind = ExpectedRuns[i].kind
           /\ rs[i].n <= ExpectedRuns[i].n
           /\ rs[i].stage # prog.mzf_stage => rs[i].n = ExpectedRuns[i].n
      /\ \A i \in 1..Len(ExpectedRuns) :
           (Entered(ExpectedRuns[i].stage) /\ prog.mzf_stage # ExpectedRuns[i].stage)
              => Len(rs) >= i

\* the body stage is entered with all eight runs emitted in full
C2_Witness == prog.mzf_stage = "FILE1" /\ obs.runs = ExpectedRuns

\* the pulses of a data byte and of its leader
FrameOf(b) ==
  <<"L">> \o [i \in 1..8 |-> IF (b \div 2 ^ (8 - i)) % 2 = 1 THEN "L" ELSE "S"]

\* the byte that eight data pulses stand for, the first pulse its top bit
Decode(ps) ==
  LET v(i) == IF ps[i] = "L" THEN 2 ^ (8 - i) ELSE 0
  IN  v(1) + v(2) + v(3) + v(4) + v(5) + v(6) + v(7) + v(8)

\* C3: in every byte-producing stage a byte is one long leader pulse and then
\* eight data pulses, most significant bit first, long for 1 and short for 0:
\* the pulses since the byte was loaded are an initial part of that frame, the
\* eight data pulses decode to the byte, the next byte is loaded only after all
\* nine, and the stage has emitted nine pulses for each earlier byte.
C3_ByteFraming ==
  (prog.mzf_stage \in ByteStages /\ obs.loaded_n[prog.mzf_stage] > 0) =>
     LET cp == obs.cur_pulses
     IN  /\ Len(cp) <= 9
         /\ prog.mzf_have_byte <=> Len(cp) < 9
         /\ prog.mzf_have_byte => prog.mzf_cur_byte = obs.last_byte
         /\ IsPrefix(cp, FrameOf(obs.last_byte))
         /\ Len(cp) = 9 => cp[1] = "L" /\ Decode(SubSeq(cp, 2, 9)) = obs.last_byte
         /\ obs.pulses_n[prog.mzf_stage]
              = 9 * (obs.loaded_n[prog.mzf_stage] - 1) + Len(cp)

\* the body byte 0x81 has just been sent in full
C3_Witness ==
  /\ prog.mzf_stage = "FILE1"
  /\ obs.last_byte = 129
  /\ obs.cur_pulses = <<"L", "L", "S", "S", "S", "S", "S", "S", "L">>

\* the number of 1 bits of the byte b
RefPop(b) == Cardinality({i \in 0..7 : (b \div 2 ^ i) % 2 = 1})

RECURSIVE RefSum(_, _, _)
\* the 1 bits of the elements lo+1..hi of the byte sequence bs, in all
RefSum(bs, lo, hi) ==
  IF lo >= hi THEN 0
  ELSE IF hi = lo + 1 THEN RefPop(bs[hi])
  ELSE RefSum(bs, lo, (lo + hi) \div 2) + RefSum(bs, (lo + hi) \div 2, hi)

\* the two bytes a checksum stage sends for the 16-bit value v
HiLo(v) == <<v \div 256, v % 256>>

\* C4: after a successful mzf_init, mzf_hdr_cksum is the sum over the 128
\* header bytes of their numbers of 1 bits, modulo 65536; CHKH1 and CHKH2 each
\* send exactly two bytes, first mzf_hdr_cksum >> 8, then mzf_hdr_cksum & 0xFF.
C4_HeaderChecksum ==
  /\ (obs.stage_trace # <<>> /\ (~obs.ticked \/ prog.mzf_stage \in {"CHKH1", "CHKH2"}))
        => prog.mzf_hdr_cksum = RefSum(prog.mzf_hdr, 0, 128) % 65536
  /\ IsPrefix(obs.sent["CHKH1"], HiLo(prog.mzf_hdr_cksum))
  /\ IsPrefix(obs.sent["CHKH2"], HiLo(prog.mzf_hdr_cksum))
  /\ Entered("HDR2") => obs.sent["CHKH1"] = HiLo(prog.mzf_hdr_cksum)
  /\ Entered("SGAP") => obs.sent["CHKH2"] = HiLo(prog.mzf_hdr_cksum)

\* both header checksums of the all-ones header with length 3 (1010 one bits)
\* have been sent
C4_Witness ==
  /\ prog.mzf_stage = "SGAP"
  /\ prog.mzf_hdr_cksum = 1010
  /\ obs.sent["CHKH1"] = <<3, 242>>
  /\ obs.sent["CHKH2"] = <<3, 242>>

\* the length the header declares: offsets 18 and 19, low byte first
DeclaredLen == prog.mzf_hdr[19] + 256 * prog.mzf_hdr[20]

\* the bytes the body checksum stage is to send for the body bytes sent
BodyHiLo == HiLo(RefSum(obs.sent["FILE1"], 0, Len(obs.sent["FILE1"])) % 65536)

\* C5: for a header that declares the length L and a body of at least L
\* bytes, FILE1 sends exactly the first L body bytes in order, nine pulses
\* each (9 * L pulses), and CHKF1 then sends exactly two bytes, the high and
\* the low byte of the sum of the 1 bits of those L bytes modulo 65536.
C5_FileBody ==
  /\ obs.stage_trace # <<>> => prog.mzf_file_len = DeclaredLen
  /\ Entered("FILE1") =>
       /\ obs.sent["FILE1"] = prog.file_data
       /\ prog.file_off = 128
       /\ Len(obs.sent["FILE1"]) <= DeclaredLen
  /\ (Entered("CHKF1") /\ ~prog.file_eof) =>
       /\ Len(obs.sent["FILE1"]) = DeclaredLen
       /\ obs.pulses_n["FILE1"] = 9 * DeclaredLen
       /\ obs.zeros_n["FILE1"] = 1
       /\ IsPrefix(obs.sent["CHKF1"], BodyHiLo)
       /\ Entered("DONE") => obs.sent["CHKF1"] = BodyHiLo /\ obs.pulses_n["CHKF1"] = 18

\* L = 3 and the body 0x00, 0xFF, 0x81: 27 pulses, then the bytes 0x00, 0x0A
C5_Witness ==
  /\ prog.mzf_stage = "DONE"
  /\ ~prog.file_eof
  /\ DeclaredLen = 3
  /\ obs.sent["FILE1"] = <<0, 255, 129>>
  /\ obs.pulses_n["FILE1"] = 27
  /\ obs.sent["CHKF1"] = <<0, 10>>

\* C6: when the seek or the 128-byte header read of mzf_init fails, the stage
\* is DONE and currentID is IDEOF at once, no stage is entered, no half-period
\* other than 0 is emitted, and every mzf_process call leaves currentPeriod 0.
C6_InitFailure ==
  obs.init_failed =>
     /\ prog.mzf_stage = "DONE"
     /\ prog.currentID = "IDEOF"
     /\ obs.stage_trace = <<>>
     /\ obs.runs = <<>>
     /\ obs.pend = 0
     /\ \A st \in ByteStages : obs.pulses_n[st] = 0 /\ obs.loaded_n[st] = 0
     /\ obs.ticked => prog.currentPeriod = 0

\* a header read that came 109 bytes short, and a tick after it
C6_Witness ==
  /\ obs.init_failed
  /\ obs.ticked
  /\ prog.file_off = 19
  /\ prog.currentPeriod = 0

\* C7: when the body runs out after k < L bytes, FILE1 ends as on normal
\* completion (one tick with currentPeriod 0, after nine pulses for each of
\* the k bytes), the next stage is CHKF1, which sends the checksum of the k
\* bytes that were read, and DONE follows.
C7_BodyExhaustion ==
  (Entered("FILE1") /\ prog.file_eof) =>
     /\ Len(obs.sent["FILE1"]) < DeclaredLen
     /\ obs.sent["FILE1"] = prog.file_data
     /\ Entered("CHKF1")
     /\ IsPrefix(obs.stage_trace, StageOrder)
     /\ obs.zeros_n["FILE1"] = 1
     /\ obs.pulses_n["FILE1"] = 9 * Len(obs.sent["FILE1"])
     /\ IsPrefix(obs.sent["CHKF1"], BodyHiLo)
     /\ prog.mzf_file_cksum = RefSum(prog.file_data, 0, Len(prog.file_data)) % 65536
     /\ Entered("DONE") => obs.sent["CHKF1"] = BodyHiLo /\ obs.pulses_n["CHKF1"] = 18

\* L = 3, but the body ends after 0xFF, 0x81: DONE after the bytes 0x00, 0x0A
C7_Witness ==
  /\ prog.mzf_stage = "DONE"
  /\ prog.file_eof
  /\ DeclaredLen = 3
  /\ obs.sent["FILE1"] = <<255, 129>>
  /\ obs.zeros_n["FILE1"] = 1
  /\ obs.sent["CHKF1"] = <<0, 10>>

\* the tick from prog to prog' loads a byte: a byte stage without a byte, and
\* the tick is not the one that ends the stage
LoadsByte ==
  prog.mzf_stage \in ByteStages /\ ~prog.mzf_have_byte /\ prog'.currentPeriod # 0

\* C14: in an MZF session every pulse takes exactly two ticks: the half-periods
\* other than 0 come in pairs, an up half and then the down half of the same
\* kind; only the tick of the down half (on which mzf_emit_pulse returns true)
\* counts a pulse down, marks the leader done, moves the bit mask or changes
\* the stage; mzf_half is 0 when a byte is loaded and when the stage changes,
\* that is, when mzf_next_stage sets it to 0, so no pulse is cut after its up
\* half.
C14_PulsePairs ==
  [][IsMzfProcess =>
       LET p == prog'.currentPeriod
           up == p \in UpPeriods
           down == p \in DownPeriods
           moved == prog'.mzf_stage # prog.mzf_stage
       IN  /\ obs'.paired
           /\ (prog'.mzf_half = 1) <=> up
           /\ (prog'.mzf_half = 1) <=> (obs'.pend # 0)
           /\ up => /\ prog.mzf_half = 0
                    /\ ~moved
                    /\ prog'.mzf_pulses_left = prog.mzf_pulses_left
                    /\ prog'.mzf_tm_left = prog.mzf_tm_left
                    /\ ~LoadsByte => /\ prog'.mzf_leader_done = prog.mzf_leader_done
                                     /\ prog'.mzf_bit_mask = prog.mzf_bit_mask
                                     /\ prog'.mzf_have_byte = prog.mzf_have_byte
           /\ down => /\ prog.mzf_half = 1
                      /\ obs.pend = UpOf(p)
                      /\ ~LoadsByte
                      /\ \/ moved
                         \/ prog'.mzf_pulses_left = prog.mzf_pulses_left - 1
                         \/ prog'.mzf_tm_left = prog.mzf_tm_left - 1
                         \/ prog'.mzf_leader_done # prog.mzf_leader_done
                         \/ prog'.mzf_bit_mask = prog.mzf_bit_mask \div 2
           /\ p = 0 => prog.mzf_half = 0
           /\ LoadsByte => prog.mzf_half = 0 /\ p = MZF_LONG_UP_US
           /\ moved => down \/ (p = 0 /\ prog.mzf_half = 0)]_vars

\* the up half of a short data pulse of the body checksum has been emitted and
\* its down half is due, every half-period before it paired
C14_Witness ==
  /\ prog.mzf_stage = "CHKF1"
  /\ prog.mzf_half = 1
  /\ prog.mzf_leader_done
  /\ prog.currentPeriod = MZF_SHORT_UP_US
  /\ obs.pend = MZF_SHORT_UP_US
  /\ obs.paired

\* the half-period number k (from 0) of the transmission of the n bytes bs,
\* 18 half-periods a byte: the leader pulse, then the data pulses from the top
\* bit down, each pulse its up and then its down half; 0 after the last byte
RefHalf(bs, n, k) ==
  IF k >= 18 * n THEN 0
  ELSE LET b == bs[k \div 18 + 1]
           q == (k % 18) \div 2
           long == q = 0 \/ (b \div 2 ^ (8 - q)) % 2 = 1
       IN  IF k % 2 = 0
           THEN (IF long THEN MZF_LONG_UP_US ELSE MZF_SHORT_UP_US)
           ELSE (IF long THEN MZF_LONG_DOWN_US ELSE MZF_SHORT_DOWN_US)

\* the number of ticks the current stage has taken so far
StagePos ==
  2 * obs.pulses_n[prog.mzf_stage] + (IF obs.pend # 0 THEN 1 ELSE 0)

\* once the stage after st has been entered, st has loaded n bytes, emitted
\* nine pulses for each and ended with one tick of 0
StageSentAll(st, after, n) ==
  Entered(after) =>
     /\ obs.loaded_n[st] = n
     /\ obs.pulses_n[st] = 9 * n
     /\ obs.zeros_n[st] = 1

\* C17: the second header transmission repeats the first: tick number k of
\* HDR2 yields the same half-period as tick number k of HDR1, the one that
\* the cached header bytes 0..127 give for position k, and tick number k of
\* CHKH2 the same as tick number k of CHKH1, the one that the two bytes of
\* mzf_hdr_cksum give; no tick changes mzf_hdr or mzf_hdr_cksum; and each of
\* the four stages, once left, has sent all its bytes (128 and 2) and ended
\* with one tick of 0.
C17_HeaderRepeat ==
  /\ [][IsMzfProcess =>
          /\ prog'.mzf_hdr = prog.mzf_hdr
          /\ prog'.mzf_hdr_cksum = prog.mzf_hdr_cksum
          /\ prog.mzf_stage \in HdrStages =>
                prog'.currentPeriod = RefHalf(prog.mzf_hdr, HDR_SIZE, StagePos)
          /\ prog.mzf_stage \in {"CHKH1", "CHKH2"} =>
                prog'.currentPeriod = RefHalf(HiLo(prog.mzf_hdr_cksum), 2, StagePos)]_vars
  /\ [](StageSentAll("HDR1", "CHKH1", HDR_SIZE) /\ StageSentAll("CHKH1", "HDR2", 2)
        /\ StageSentAll("HDR2", "CHKH2", HDR_SIZE) /\ StageSentAll("CHKH2", "SGAP", 2))

\* both transmissions of the ramp header are over, 1152 pulses and two
\* checksum bytes each
C17_Witness ==
  /\ prog.mzf_stage = "SGAP"
  /\ prog.mzf_hdr[1] = 11
  /\ obs.pulses_n["HDR1"] = 1152
  /\ obs.pulses_n["HDR2"] = 1152
  /\ obs.sent["CHKH1"] = obs.sent["CHKH2"]
  /\ Len(obs.sent["CHKH2"]) = 2

\* the byte-producing stages a session goes through
SessionByteStages == {"HDR1", "CHKH1", "HDR2", "CHKH2", "FILE1", "CHKF1"}

\* the stage that follows st in the order of a session
StageAfter(st) ==
  StageOrder[(CHOOSE i \in 1..(Len(StageOrder) - 1) : StageOrder[i] = st) + 1]

\* C18: a tick yields currentPeriod = 0 only when it ends a byte-producing
\* stage, and then it moves mzf_stage to the next stage, or when the stage is
\* DONE already; a tick that follows one of 0 before DONE yields a half-period
\* other than 0 or advances the stage itself; and a session that has reached
\* DONE has had exactly six ticks of 0 on the way, one at the end of each of
\* HDR1, CHKH1, HDR2, CHKH2, FILE1 and CHKF1, whatever the declared length.
C18_ZeroTicks ==
  /\ [][IsMzfProcess =>
          /\ prog'.currentPeriod = 0 =>
                \/ prog.mzf_stage = "DONE"
                \/ /\ prog.mzf_stage \in SessionByteStages
                   /\ prog'.mzf_stage = StageAfter(prog.mzf_stage)
                   /\ obs'.zeros_n[prog.mzf_stage] = 1
          /\ (obs.ticked /\ prog.currentPeriod = 0 /\ prog.mzf_stage # "DONE") =>
                \/ prog'.currentPeriod # 0
                \/ prog'.mzf_stage # prog.mzf_stage]_vars
  /\ [](/\ \A st \in ByteStages : obs.zeros_n[st] <= 1
        /\ \A st \in ByteStages \ SessionByteStages : obs.zeros_n[st] = 0
        /\ Entered("DONE") => \A st \in SessionByteStages : obs.zeros_n[st] = 1)

\* a session whose header declares the length 0 is DONE: FILE1 was one tick
\* of 0 and no pulse, and each of the six stages gave its 0
C18_Witness ==
  /\ prog.mzf_stage = "DONE"
  /\ Entered("DONE")
  /\ DeclaredLen = 0
  /\ obs.pulses_n["FILE1"] = 0
  /\ \A st \in SessionByteStages : obs.zeros_n[st] = 1

\* C19: mzf_process calls ReadByte in stage FILE1 only, never in a gap,
\* tapemark, header or checksum stage; at most mzf_file_len of the calls
\* return a byte; mzf_file_left is mzf_file_len less the bytes read so far and
\* never below 0; and a tick that finds mzf_file_left = 0 does not call
\* ReadByte, so the bytes the file holds after the declared length are never
\* asked for.
C19_ReadsOnlyBody ==
  /\ [](/\ obs.ask_stages \subseteq {"FILE1"}
        /\ obs.asks_ok <= prog.mzf_file_len
        /\ obs.asks_n <= obs.asks_ok + 1
        /\ obs.asks_n > obs.asks_ok => prog.file_eof
        /\ obs.stage_trace # <<>> => prog.bytesRead = 128 + obs.asks_ok
        /\ Entered("FILE1") =>
              /\ prog.mzf_file_left = prog.mzf_file_len - obs.asks_ok
              /\ prog.mzf_file_left \in 0..prog.mzf_file_len
              /\ obs.asks_ok = Len(obs.sent["FILE1"]))
  /\ [][(IsMzfProcess /\ (prog.mzf_file_left = 0 \/ prog.mzf_stage # "FILE1")) =>
          /\ obs'.asks_n = obs.asks_n
          /\ prog'.bytesRead = prog.bytesRead
          /\ prog'.file_data = prog.file_data
          /\ prog'.file_eof = prog.file_eof]_vars

\* a session with the declared length MaxLen is DONE after MaxLen calls of
\* ReadByte, all in FILE1 and each with a byte; whether the file holds more
\* was never asked
C19_Witness ==
  /\ prog.mzf_stage = "DONE"
  /\ prog.mzf_file_len = MaxLen
  /\ prog.mzf_file_left = 0
  /\ obs.asks_n = MaxLen
  /\ obs.asks_ok = MaxLen
  /\ obs.ask_stages = {"FILE1"}
  /\ ~prog.file_eof

----------------------------------------------------------------------------
(* Independence of MZF sessions (specification SpecReinit) *)

\* C20: a session begun by a successful mzf_init while an earlier session
\* was under way, or after it was DONE, yields on every tick the same
\* currentPeriod and the same stage as a session on the same tape (same
\* header, same body) begun from the initial state; it also asks the byte
\* source on the same ticks and leaves the same hand-off values.
C20_SessionIndependent ==
  obs.init_calls = 2 =>
     /\ prog.mzf_stage = obs.ref.mzf_stage
     /\ obs.ticked => prog.currentPeriod = obs.ref.currentPeriod
     /\ prog.currentID = obs.ref.currentID
     /\ prog.currentTask = obs.ref.currentTask
     /\ prog.bytesRead = obs.ref.bytesRead
     /\ prog.file_data = obs.ref.file_data
     /\ prog.file_eof = obs.ref.file_eof

\* the first session was left in the middle of its file body, with a body
\* checksum under way; the second session has sent its own body and its
\* checksum, and is DONE
C20_Witness ==
  /\ obs.init_calls = 2
  /\ obs.left_at = "FILE1"
  /\ prog.mzf_stage = "DONE"
  /\ obs.ref.mzf_stage = "DONE"
  /\ obs.sent["FILE1"] = <<255, 129, 0>>
  /\ obs.sent["CHKF1"] = <<0, 10>>

----------------------------------------------------------------------------
(* Properties of CAQ playbacks (specification SpecCAQ) *)

\* the 44 half-periods of the byte b: start bit, bits 7..0, two stop bits
Frame44(b) ==
  [i \in 1..44 |->
     IF i <= 4 THEN 544
     ELSE IF i <= 36
     THEN (IF (b \div 2 ^ (7 - (i - 5) \div 4)) % 2 = 1 THEN 272 ELSE 544)
     ELSE 272]

ClaimedMoves ==
  {<<"START_BIT", "DATA_BITS">>, <<"DATA_BITS", "STOP_BIT1">>,
   <<"STOP_BIT1", "STOP_BIT2">>, <<"STOP_BIT2", "START_BIT">>,
   <<"STOP_BIT2", "DONE">>}

\* the moves of caq_stage that caq_process makes
ActualMoves ==
  {<<"START_BIT", "DATA_BITS">>, <<"DATA_BITS", "STOP_BIT1">>,
   <<"STOP_BIT1", "STOP_BIT2">>, <<"STOP_BIT2", "START_BIT">>,
   <<"START_BIT", "DONE">>}

\* this step is a call of caq_process
IsCaqProcess == obs.caq_inits > 0 /\ obs'.caq_inits = obs.caq_inits

\* this step is a call of caq_init
IsCaqInit == obs'.caq_inits # obs.caq_inits

\* C9 as claimed: caq_process changes caq_stage only along START_BIT ->
\* DATA_BITS -> STOP_BIT1 -> STOP_BIT2 -> (START_BIT or DONE), DONE stays DONE,
\* and caq_init sets START_BIT.
C9_Original ==
  [][/\ IsCaqInit => prog'.caq_stage = "START_BIT"
     /\ ~IsCaqInit => \/ prog'.caq_stage = prog.caq_stage
                      \/ <<prog.caq_stage, prog'.caq_stage>> \in ClaimedMoves]_vars

\* C9 (amended): caq_process changes caq_stage only along START_BIT ->
\* DATA_BITS -> STOP_BIT1 -> STOP_BIT2 -> START_BIT, and from START_BIT to DONE
\* when the read that is due finds the source exhausted (to DATA_BITS when it
\* yields a byte); once DONE it stays DONE on every further caq_process call,
\* and only caq_init returns it to START_BIT.
C9_StageMoves ==
  [][/\ IsCaqInit => prog'.caq_stage = "START_BIT"
     /\ ~IsCaqInit =>
          /\ \/ prog'.caq_stage = prog.caq_stage
             \/ <<prog.caq_stage, prog'.caq_stage>> \in ActualMoves
          /\ (prog.caq_stage = "START_BIT" /\ prog.caq_halves_left = 0) =>
                \/ prog'.caq_stage = "DATA_BITS" /\ prog'.bytesRead = prog.bytesRead + 1
                \/ prog'.caq_stage = "DONE" /\ prog'.bytesRead = prog.bytesRead
                     /\ prog'.file_eof
          /\ prog.caq_stage = "DONE" => prog'.caq_stage = "DONE"]_vars

\* a second playback that sent a byte and then found the source exhausted
C9_Witness ==
  /\ prog.caq_stage = "DONE"
  /\ obs.caq_inits = 2
  /\ Len(obs.caq_frames) = 1
  /\ prog.currentID = "IDEOF"

\* C10: whatever BAUDRATE was before the playback, it is 600 from caq_init
\* until the playback reaches DONE and is the earlier value again from then
\* on, also when caq_init is called again while the override is active: the
\* saved value is the one of before the first of these calls.
C10_BaudRoundTrip ==
  /\ prog.caq_stage # "DONE" =>
       /\ prog.BAUDRATE = 600
       /\ prog.caq_baudrate_overridden
       /\ prog.caq_saved_baudrate = obs.menu_baud
  /\ prog.caq_stage = "DONE" =>
       /\ prog.BAUDRATE = obs.menu_baud
       /\ ~prog.caq_baudrate_overridden

\* a playback was cut short by a new caq_init, and the new one ran to DONE:
\* the configured 3600 baud are back
C10_Witness ==
  /\ prog.caq_stage = "DONE"
  /\ obs.caq_abandoned >= 1
  /\ obs.caq_frames # <<>>
  /\ obs.menu_baud = 3600
  /\ prog.BAUDRATE = 3600

\* C11: in a playback started by caq_init, whatever BAUDRATE was before the
\* call and whether the playbacks before it ran to DONE or were left early,
\* BAUDRATE is 600 after every caq_process call that emits a half-period
\* other than 0.
C11_Always600 ==
  [][(~IsCaqInit /\ prog'.currentPeriod # 0) => prog'.BAUDRATE = 600]_vars

\* the step from prog to prog' read a byte from the source, or was told
\* that none is left
AskedSource ==
  \/ prog'.bytesRead # prog.bytesRead
  \/ prog'.file_data # prog.file_data
  \/ prog'.file_eof # prog.file_eof
  \/ prog'.caq_stage = "DONE" /\ prog.caq_stage # "DONE"

\* the step began a bit: caq_begin_bit set caq_halves_left to 4 and the first
\* half-period was emitted
BeganBit == prog'.caq_halves_left = 3

\* the half-periods of the byte in progress are whole bits, the last bit four
\* half-periods of one duration
PrevBitWhole ==
  LET h == obs.caq_halves
      n == Len(h)
  IN  /\ n % 4 = 0
      /\ n > 0 => h[n - 3] = h[n] /\ h[n - 2] = h[n] /\ h[n - 1] = h[n] /\ h[n] # 0

\* C15: while half-periods of the current bit remain, caq_process only emits
\* the next of them: it neither asks the source for a byte nor begins a bit.
\* Whenever it asks the source or calls caq_begin_bit, caq_halves_left is 0
\* and the bit before, if the playback has sent one, had its 4 half-periods
\* emitted, all of the same duration.
C15_BitAtomic ==
  [][IsCaqProcess =>
       /\ prog.caq_halves_left # 0 =>
             /\ ~AskedSource
             /\ prog'.caq_halves_left = prog.caq_halves_left - 1
             /\ prog'.currentPeriod = prog.caq_half_period
             /\ prog'.caq_half_period = prog.caq_half_period
             /\ prog'.caq_stage = prog.caq_stage
             /\ prog'.caq_bit_idx = prog.caq_bit_idx
             /\ prog'.caq_cur_byte = prog.caq_cur_byte
             /\ prog'.caq_have_byte = prog.caq_have_byte
       /\ prog'.caq_halves_left \in 0..3
       /\ (AskedSource \/ BeganBit) => prog.caq_halves_left = 0 /\ PrevBitWhole]_vars

\* the second data bit of the byte 0x81 has just begun, after the four mark
\* half-periods of the first
C15_Witness ==
  /\ obs.caq_byte = 129
  /\ prog.caq_halves_left = 3
  /\ prog.caq_bit_idx = 5
  /\ obs.caq_halves = <<544, 544, 544, 544, 272, 272, 272, 272, 544>>

\* C16: whenever caq_process has set currentID to IDEOF, BAUDRATE is the
\* value that was configured before the playback, which is also the saved
\* one, and caq_baudrate_overridden is false; the tick that hands over emits
\* nothing; and the first tick of a playback whose source is empty is such a
\* tick, so that playback emits no half-period other than 0.
C16_RestoreBeforeEof ==
  [][IsCaqProcess =>
       /\ prog'.currentID = "IDEOF" =>
             /\ prog'.BAUDRATE = obs.menu_baud
             /\ prog'.BAUDRATE = prog'.caq_saved_baudrate
             /\ ~prog'.caq_baudrate_overridden
             /\ prog'.caq_stage = "DONE"
             /\ prog'.currentPeriod = 0
       /\ prog'.caq_stage = "DONE" => prog'.currentID = "IDEOF"
       /\ (prog.bytesRead = 0 /\ ~prog.file_eof /\ prog'.bytesRead = 0) =>
             /\ prog.currentID = "CAQ"
             /\ prog'.currentID = "IDEOF"
             /\ prog'.currentPeriod = 0
             /\ obs'.caq_halves = <<>>
             /\ obs'.caq_frames = <<>>]_vars

\* the second playback found its source empty: end of file with the
\* configured 3600 baud back and nothing emitted
C16_Witness ==
  /\ prog.currentID = "IDEOF"
  /\ obs.caq_inits = 2
  /\ prog.bytesRead = 0
  /\ prog.file_eof
  /\ prog.file_data = <<>>
  /\ obs.menu_baud = 3600
  /\ prog.BAUDRATE = 3600
  /\ ~prog.caq_baudrate_overridden

----------------------------------------------------------------------------
(* Termination of an MZF session (specification SpecLive) *)

\* C13: after a successful mzf_init, whatever the header, the declared length
\* and the answers of the byte source, the repeated mzf_process calls bring the
\* stage to DONE; a tick in DONE leaves currentID = IDEOF, currentTask =
\* PROCESSID, currentPeriod = 0 and the stage DONE.
C13_Terminates ==
  /\ ((obs.init_calls > 0 /\ ~obs.init_failed) ~> (prog.mzf_stage = "DONE"))
  /\ [][(IsMzfProcess /\ prog.mzf_stage = "DONE") =>
          /\ prog'.currentID = "IDEOF"
          /\ prog'.currentTask = "PROCESSID"
          /\ prog'.currentPeriod = 0
          /\ prog'.mzf_stage = "DONE"]_vars

\* a session whose body ran out early went through the checksum stage to DONE
\* and has handed over to the end-of-file handler
C13_Witness ==
  /\ prog.mzf_stage = "DONE"
  /\ Entered("CHKF1")
  /\ prog.file_eof
  /\ prog.currentID = "IDEOF"
  /\ prog.currentTask = "PROCESSID"
  /\ prog.currentPeriod = 0

----------------------------------------------------------------------------
(* Properties of both encoders (specification SpecEither) *)

\* the values mzf_process may leave in currentPeriod
MzfPeriods ==
  {MZF_LONG_UP_US, MZF_LONG_DOWN_US, MZF_SHORT_UP_US, MZF_SHORT_DOWN_US, 0}

\* the values caq_process may leave in currentPeriod
CaqPeriods == {CAQ_MARK_HALF_US, CAQ_SPACE_HALF_US, 0}

\* C12: after every mzf_process call currentPeriod is 464, 494, 240, 264 or
\* 0, and after every caq_process call it is 272, 544 or 0, whatever it held
\* before the call.
C12_PeriodSet ==
  [][/\ IsMzfProcess => prog'.currentPeriod \in MzfPeriods
     /\ IsCaqProcess => prog'.currentPeriod \in CaqPeriods]_vars

\* a CAQ playback has sent the space half-periods of a start bit and is now
\* sending the mark half-periods of the first stop bit
C12_Witness ==
  /\ obs.caq_inits > 0
  /\ prog.caq_stage = "STOP_BIT2"
  /\ prog.currentPeriod = CAQ_MARK_HALF_US
  /\ obs.caq_halves # <<>>
  /\ obs.caq_halves[1] = CAQ_SPACE_HALF_US

====
